---- MODULE Spec2Model ----
(***************************************************************************)
(* Model of the Telegraf NETCONF input plugin                              *)
(* (plugins/inputs/netconf/netconf.go).                                    *)
(*                                                                         *)
(* One goroutine runs Gather (the host's poll trigger), one runs Stop.     *)
(* They share the connections map, guarded by the mutex mu.  The devices   *)
(* themselves (DialSSH, Session.Exec, Session.Close, the reply payload)    *)
(* are the environment: every outcome the library can report is a          *)
(* nondeterministic choice.                                                *)
(***************************************************************************)
EXTENDS Integers, Sequences, FiniteSets, TLC

\* ------------------------------------------------------------------ bounds
MaxDevices == 3      \* longest configured device list
MaxSessions == 3     \* successful dials in one behaviour
MaxIfaces == 2       \* most <interface> elements in a decoder input

Addrs == {"r1:830", "r2:830"}
NoSession == 0

\* --------------------------------------------------------- reply payloads
(* A reply payload (reply.Data) is abstracted to what xml.Unmarshal reads   *)
(* of it: whether the document is well-formed, and the <interface>          *)
(* elements under <interfaces> in document order.  A child element is       *)
(* either absent or present with character data; the character data of a   *)
(* counter is a sequence of characters.                                     *)
Digits == <<"0", "1", "2", "3", "4", "5", "6", "7", "8", "9">>
NoElem == [present |-> FALSE, text |-> <<>>]
Elem(t) == [present |-> TRUE, text |-> t]
NoName == [present |-> FALSE, text |-> ""]
NameElem(s) == [present |-> TRUE, text |-> s]

IfNames == {"ge-0/0/0", "ge-0/0/1"}
NameElems == {NameElem(s) : s \in IfNames}
InTexts == {<<>>, <<"4", "2">>, <<"x">>}
OutTexts == {<<"9">>, <<"-", "1">>}
InElems == {NoElem} \cup {Elem(t) : t \in InTexts}
OutElems == {NoElem} \cup {Elem(t) : t \in OutTexts}
Entries == [name : NameElems, inOctets : InElems, outOctets : OutElems]

SeqsUpTo(S, n) == UNION {[1..k -> S] : k \in 0..n}
\* every payload the decoder is checked on
Replies == [wellFormed : BOOLEAN, ifaces : SeqsUpTo(Entries, MaxIfaces)]

(* The payloads devices answer with in the polling specification: a device *)
(* with one interface (possibly cut short, so not well-formed), or none.    *)
PollEntry ==
  [name |-> NameElem("ge-0/0/0"), inOctets |-> Elem(<<"4", "2">>),
   outOctets |-> Elem(<<"9">>)]
PollReplies ==
  [wellFormed : BOOLEAN, ifaces : {<<PollEntry>>}]
    \cup {[wellFormed |-> TRUE, ifaces |-> <<>>]}

\* ------------------------------------------------------------ xml.Unmarshal
DigitValue(c) == CHOOSE d \in 0..9 : Digits[d + 1] = c
IsDigit(c) == \E d \in 0..9 : Digits[d + 1] = c

RECURSIVE ParseDigits(_, _)
ParseDigits(t, acc) ==
  IF t = <<>> THEN acc ELSE ParseDigits(Tail(t), acc * 10 + DigitValue(Head(t)))

(* strconv.ParseUint(s, 10, 64) as xml's copyValue uses it: the value of a  *)
(* non-empty string of decimal digits, an error for anything else.  (The    *)
(* range error above 2^64-1 needs 20 digits and is outside the texts        *)
(* modelled here.)                                                          *)
ParseUint(t) ==
  IF t # <<>> /\ \A k \in 1..Len(t) : IsDigit(t[k])
  THEN [ok |-> TRUE, val |-> ParseDigits(t, 0)]
  ELSE [ok |-> FALSE, val |-> 0]

\* faulty variant: an absent counter element is handed to ParseUint
DecodeUintStrict(e) ==
  IF e.present /\ e.text = <<>> THEN [ok |-> TRUE, val |-> 0] ELSE ParseUint(e.text)

(* copyValue for a uint64 field: an absent element leaves the zero value,   *)
(* empty character data sets 0, anything else goes through ParseUint.       *)
DecodeUint(e) ==
  IF ~e.present \/ e.text = <<>> THEN [ok |-> TRUE, val |-> 0] ELSE ParseUint(e.text)

DecodeName(e) == IF e.present THEN e.text ELSE ""

(* xml.Unmarshal into the anonymous result struct: the Interface slice      *)
(* grows one element per <interface>; the first counter that does not       *)
(* parse stops the decoding with an error, leaving the elements decoded so  *)
(* far in the slice.  A document that is not well-formed is an error too.   *)
RECURSIVE UnmarshalIfaces(_, _)
UnmarshalIfaces(es, done) ==
  IF es = <<>> THEN [err |-> FALSE, Interface |-> done]
  ELSE LET e == Head(es)
           i == DecodeUint(e.inOctets)
           o == DecodeUint(e.outOctets)
       IN IF ~i.ok \/ ~o.ok
          THEN [err |-> TRUE, Interface |-> done]
          ELSE UnmarshalIfaces(Tail(es),
                 Append(done, [Name |-> DecodeName(e.name),
                               InOctets |-> i.val, OutOctets |-> o.val]))

Unmarshal(r) ==
  LET u == UnmarshalIfaces(r.ifaces, <<>>)
  IN IF r.wellFormed THEN u ELSE [err |-> TRUE, Interface |-> u.Interface]

\* ------------------------------------------------------------------- state
VARIABLES
  Devices,       \* n.Devices: the configured list, as addresses
  connections,   \* n.connections: address -> session (NoSession = no entry)
  mu,            \* n.mu: "free", or the goroutine holding it
  sessAddr,      \* the sessions dialed so far: session id -> address dialed
  closed,        \* the sessions Close() was called on
  gPc,           \* Gather's position
  gIdx,          \* Gather's index in Devices (the range loop)
  cSession,      \* connect's result: session
  cErr,          \* connect's result: error?
  session,       \* Gather's local session
  reply,         \* Gather's local replyBytes
  result,        \* Gather's local result.Interfaces.Interface
  jIdx,          \* index of the inner range loop over result
  metrics,       \* acc: the AddFields calls of the pass, in order
  errors,        \* acc: the AddError calls of the pass, in order
  gRet,          \* Gather's return value: "none" (running), "nil", "rpc"
  sPc,           \* Stop's position
  sRet,          \* disconnectAll's return value ("none" before it returns)
  rangeLeft,     \* disconnectAll: the keys its range loop has yet to visit
  \* history, read by the properties only
  cBefore,       \* the store's entry for the address when connect took the lock
  cDials,        \* DialSSH calls made by the connect call in progress
  visits,        \* the devices the pass has finished with, and how
  base,          \* Len(metrics), Len(errors) when the current iteration began
  snapshot,      \* the sessions in the store when disconnectAll took the lock
  closeErr,      \* did a Close() of this disconnectAll return an error
  evicted        \* addresses whose entry disconnectAll deleted, not stored since

(* Observers: history kept only by the specifications that need it (a       *)
(* specification that does not leaves them unchanged).                      *)
VARIABLES
  prev,          \* what the previous pass reported, once the host has taken it
  passDials,     \* DialSSH calls made since the current pass was called
  overlap,       \* was Stop called while the current pass was running
  failed,        \* addresses whose connect failed: in the pass before (last),
                 \* in this pass (cur), at their latest connect (recent)
  c2Pc,          \* where a second, concurrent call of connect stands
  c2Dev,         \* its argument device.Address
  c2Session,     \* its session
  c2Err          \* did its DialSSH fail

caller2 == <<c2Pc, c2Dev, c2Session, c2Err>>
obs == <<prev, passDials, overlap, failed, caller2>>

vars == <<Devices, connections, mu, sessAddr, closed, gPc, gIdx, cSession, cErr,
          session, reply, result, jIdx, metrics, errors, gRet,
          sPc, sRet, rangeLeft, cBefore, cDials, visits, base, snapshot, closeErr,
          evicted, obs>>

gLocals == <<cSession, cErr, session, reply, result, jIdx>>
gAcc == <<metrics, errors>>
stopVars == <<sPc, sRet, rangeLeft, snapshot, closeErr>>
storeVars == <<connections, sessAddr, closed, evicted>>
connHist == <<cBefore, cDials>>

NoReply == [wellFormed |-> FALSE, ifaces |-> <<>>]

\* no previous pass, or one in which some device failed
NoPass == [ok |-> FALSE, names |-> <<>>, tags |-> <<>>]
NoAddr == ""
NoFailed == [last |-> {}, cur |-> {}, recent |-> {}]

DeviceLists == UNION {[1..k -> Addrs] : k \in 1..MaxDevices}

(* NewNetconf: an empty map, an unlocked mutex; Devices is filled by the     *)
(* host's configuration loader before the first Gather.                     *)
NewNetconf ==
  /\ connections = [a \in Addrs |-> NoSession]
  /\ mu = "free"

Init ==
  /\ Devices \in DeviceLists
  /\ NewNetconf
  /\ sessAddr = <<>>
  /\ closed = {}
  /\ gPc = "idle" /\ gIdx = 0
  /\ cSession = NoSession /\ cErr = FALSE
  /\ session = NoSession /\ reply = NoReply /\ result = <<>> /\ jIdx = 0
  /\ metrics = <<>> /\ errors = <<>>
  /\ gRet = "none"
  /\ sPc = "idle" /\ sRet = "none" /\ rangeLeft = {}
  /\ cBefore = NoSession /\ cDials = 0
  /\ visits = <<>> /\ base = [m |-> 0, e |-> 0]
  /\ snapshot = {} /\ closeErr = FALSE
  /\ evicted = {}
  /\ prev = NoPass /\ passDials = 0 /\ overlap = FALSE
  /\ failed = NoFailed
  /\ c2Pc = "idle" /\ c2Dev = NoAddr /\ c2Session = NoSession /\ c2Err = FALSE

device == Devices[gIdx]

\* ------------------------------------------------------------------ Gather
\* fmt.Errorf("failed to connect to %s: %v", device.Address, err)
ConnectError(a) == [kind |-> "connect", device |-> a]
\* fmt.Errorf("XML parse failed for %s: %v", device.Address, err)
ParseError(a) == [kind |-> "xml", device |-> a]

\* history: what the iteration that ends in this step did
Visit(out) ==
  [addr |-> device, out |-> out, reply |-> reply,
   from |-> base.m, to |-> Len(metrics'),
   efrom |-> base.e, eto |-> Len(errors')]

ClearLocals ==
  /\ cSession' = NoSession /\ cErr' = FALSE
  /\ session' = NoSession /\ reply' = NoReply /\ result' = <<>> /\ jIdx' = 0

\* faulty variant: the loop variable advances by two
NextDeviceSkipping(out) ==
  /\ visits' = Append(visits, Visit(out))
  /\ base' = [m |-> Len(metrics'), e |-> Len(errors')]
  /\ ClearLocals
  /\ IF gIdx + 1 < Len(Devices)
     THEN gIdx' = gIdx + 2 /\ gPc' = "lock" /\ gRet' = gRet
     ELSE gIdx' = 0 /\ gPc' = "returned" /\ gRet' = "nil"

(* The end of one iteration of the range loop over n.Devices ("continue",   *)
(* or the end of the loop body): the next device, or "return nil" after     *)
(* the last one.  The step's metrics' and errors' are set before it.        *)
NextDevice(out) ==
  /\ visits' = Append(visits, Visit(out))
  /\ base' = [m |-> Len(metrics'), e |-> Len(errors')]
  /\ ClearLocals
  /\ IF gIdx < Len(Devices)
     THEN gIdx' = gIdx + 1 /\ gPc' = "lock" /\ gRet' = gRet
     ELSE gIdx' = 0 /\ gPc' = "returned" /\ gRet' = "nil"

\* a return from inside the loop: the remaining devices are not visited
ReturnError(out, ret) ==
  /\ visits' = Append(visits, Visit(out))
  /\ base' = [m |-> Len(metrics'), e |-> Len(errors')]
  /\ ClearLocals
  /\ gIdx' = 0 /\ gPc' = "returned" /\ gRet' = ret

(* The host calls Gather with a fresh accumulator.                          *)
GatherCall ==
  /\ gPc = "idle"
  /\ gIdx' = 1 /\ gPc' = "lock"
  /\ UNCHANGED <<Devices, mu, gLocals, gAcc, gRet, visits, base, storeVars,
                 stopVars, connHist>>

(* Gather has returned: the host takes the pass's metrics, errors and       *)
(* return value; the next pass gets a fresh accumulator.                    *)
GatherReturned ==
  /\ gPc = "returned"
  /\ gPc' = "idle"
  /\ metrics' = <<>> /\ errors' = <<>>
  /\ visits' = <<>> /\ base' = [m |-> 0, e |-> 0]
  /\ gRet' = "none"
  /\ UNCHANGED <<Devices, mu, gIdx, gLocals, storeVars, stopVars, connHist>>

\* connect: n.mu.Lock()
ConnectLock ==
  /\ gPc = "lock"
  /\ mu = "free"
  /\ mu' = "gather"
  /\ gPc' = "lookup"
  /\ cBefore' = connections[device]
  /\ cDials' = 0
  /\ UNCHANGED <<Devices, gIdx, gLocals, gAcc, gRet, storeVars, stopVars,
                 visits, base>>

\* faulty variant: the lookup is skipped, every connect dials
ConnectLookupAlwaysDial ==
  /\ gPc = "lookup"
  /\ gPc' = "dial"
  /\ UNCHANGED <<cSession, cErr>>
  /\ UNCHANGED <<Devices, mu, gIdx, session, reply, result, jIdx, gAcc, gRet,
                 storeVars, stopVars, connHist, visits, base>>

\* connect: if session, ok := n.connections[device.Address]; ok { return session, nil }
ConnectLookup ==
  /\ gPc = "lookup"
  /\ IF connections[device] # NoSession
     THEN /\ cSession' = connections[device] /\ cErr' = FALSE
          /\ gPc' = "unlock"
     ELSE /\ gPc' = "dial"
          /\ UNCHANGED <<cSession, cErr>>
  /\ UNCHANGED <<Devices, mu, gIdx, session, reply, result, jIdx, gAcc, gRet,
                 storeVars, stopVars, connHist, visits, base>>

\* faulty variant: a failed DialSSH is tried again within the call
ConnectDialRetries ==
  /\ gPc = "dial"
  /\ cDials' = cDials + 1
  /\ \/ /\ cSession' = NoSession /\ cErr' = TRUE
        /\ gPc' = IF cDials = 0 THEN "dial" ELSE "unlock"
        /\ UNCHANGED sessAddr
     \/ /\ Len(sessAddr) < MaxSessions
        /\ sessAddr' = Append(sessAddr, device)
        /\ cSession' = Len(sessAddr) + 1 /\ cErr' = FALSE
        /\ gPc' = "store"
  /\ UNCHANGED <<Devices, mu, gIdx, session, reply, result, jIdx, gAcc, gRet,
                 connections, closed, evicted, stopVars, cBefore,
                 visits, base>>

(* connect: netconf.DialSSH fails ("return nil, fmt.Errorf(...)"), or       *)
(* yields a new session.                                                    *)
ConnectDial ==
  /\ gPc = "dial"
  /\ cDials' = cDials + 1
  /\ \/ /\ cSession' = NoSession /\ cErr' = TRUE
        /\ gPc' = "unlock"
        /\ UNCHANGED sessAddr
     \/ /\ Len(sessAddr) < MaxSessions
        /\ sessAddr' = Append(sessAddr, device)
        /\ cSession' = Len(sessAddr) + 1 /\ cErr' = FALSE
        /\ gPc' = "store"
  /\ UNCHANGED <<Devices, mu, gIdx, session, reply, result, jIdx, gAcc, gRet,
                 connections, closed, evicted, stopVars, cBefore,
                 visits, base>>

\* faulty variant: the new session is returned without being stored
ConnectStoreNotStored ==
  /\ gPc = "store"
  /\ gPc' = "unlock"
  /\ UNCHANGED <<Devices, mu, gIdx, gLocals, gAcc, gRet, storeVars,
                 stopVars, connHist, visits, base>>

\* connect: n.connections[device.Address] = session; return session, nil
ConnectStore ==
  /\ gPc = "store"
  /\ connections' = [connections EXCEPT ![device] = cSession]
  /\ evicted' = evicted \ {device}
  /\ gPc' = "unlock"
  /\ UNCHANGED <<Devices, mu, gIdx, gLocals, gAcc, gRet, sessAddr, closed,
                 stopVars, connHist, visits, base>>

\* connect: the deferred n.mu.Unlock(), and the return to Gather
ConnectUnlock ==
  /\ gPc = "unlock"
  /\ mu' = "free"
  /\ gPc' = "connected"
  /\ UNCHANGED <<Devices, gIdx, gLocals, gAcc, gRet, storeVars, stopVars,
                 connHist, visits, base>>

\* faulty variant: the connect error ends the pass instead of "continue"
OnConnectErrorReturn ==
  /\ errors' = Append(errors, ConnectError(device))
  /\ UNCHANGED metrics
  /\ ReturnError("connect", "connect")

\* Gather: if err != nil { acc.AddError(...); continue }
OnConnectError ==
  /\ errors' = Append(errors, ConnectError(device))
  /\ UNCHANGED metrics
  /\ NextDevice("connect")

\* Gather: session, err := n.connect(device), after connect has returned
GatherConnected ==
  /\ gPc = "connected"
  /\ IF cErr
     THEN OnConnectError
     ELSE /\ session' = cSession
          /\ gPc' = "exec"
          /\ UNCHANGED <<gIdx, cSession, cErr, reply, result, jIdx, gAcc, gRet,
                         visits, base>>
  /\ cBefore' = NoSession /\ cDials' = 0
  /\ UNCHANGED <<Devices, mu, storeVars, stopVars>>

\* Gather: if err != nil { return fmt.Errorf("RPC failed: %v", err) }
OnExecError ==
  /\ UNCHANGED gAcc
  /\ ReturnError("rpc", "rpc")

(* Gather: reply, err := session.Exec(...).  On a session that was closed   *)
(* the transport reports an error; on an open one the device answers with   *)
(* some payload, or the RPC fails.                                          *)
GatherExec(pool) ==
  /\ gPc = "exec"
  /\ \/ OnExecError
     \/ /\ session \notin closed
        /\ reply' \in pool
        /\ gPc' = "decode"
        /\ UNCHANGED <<gIdx, cSession, cErr, session, result, jIdx, gAcc, gRet,
                       visits, base>>
  /\ UNCHANGED <<Devices, mu, storeVars, stopVars, connHist>>

\* faulty variant: what was decoded before the error is emitted
OnParseErrorEmitPartial(u) ==
  /\ errors' = Append(errors, ParseError(device))
  /\ metrics' = metrics \o
       [k \in 1..Len(u.Interface) |->
          [measurement |-> "netconf_interface",
           tags |-> [interface |-> u.Interface[k].Name, device |-> device],
           fields |-> [input_bytes |-> u.Interface[k].InOctets,
                       output_bytes |-> u.Interface[k].OutOctets]]]
  /\ NextDevice("xml")

\* Gather: if err := xml.Unmarshal(...); err != nil { acc.AddError(...); continue }
OnParseError(u) ==
  /\ errors' = Append(errors, ParseError(device))
  /\ UNCHANGED metrics
  /\ NextDevice("xml")

\* Gather: xml.Unmarshal(replyBytes, &result)
GatherDecode ==
  /\ gPc = "decode"
  /\ LET u == Unmarshal(reply)
     IN IF u.err
        THEN OnParseError(u)
        ELSE /\ result' = u.Interface
             /\ jIdx' = 1
             /\ gPc' = "emit"
             /\ UNCHANGED <<gIdx, cSession, cErr, session, reply, gAcc, gRet,
                            visits, base>>
  /\ UNCHANGED <<Devices, mu, storeVars, stopVars, connHist>>

\* faulty variant: the two counters are swapped
MetricSwapped(iface, addr) ==
  [measurement |-> "netconf_interface",
   tags |-> [interface |-> iface.Name, device |-> addr],
   fields |-> [input_bytes |-> iface.OutOctets, output_bytes |-> iface.InOctets]]

\* Gather: the tags and fields of one acc.AddFields("netconf_interface", ...)
Metric(iface, addr) ==
  [measurement |-> "netconf_interface",
   tags |-> [interface |-> iface.Name, device |-> addr],
   fields |-> [input_bytes |-> iface.InOctets, output_bytes |-> iface.OutOctets]]

\* Gather: for _, iface := range result.Interfaces.Interface { acc.AddFields(...) }
GatherEmit ==
  /\ gPc = "emit"
  /\ IF jIdx <= Len(result)
     THEN /\ metrics' = Append(metrics, Metric(result[jIdx], device))
          /\ jIdx' = jIdx + 1
          /\ UNCHANGED <<gPc, gIdx, cSession, cErr, session, reply, result, errors,
                         gRet, visits, base>>
     ELSE /\ UNCHANGED gAcc
          /\ NextDevice("ok")
  /\ UNCHANGED <<Devices, mu, storeVars, stopVars, connHist>>

\* -------------------------------------------------------------------- Stop
\* Stop: n.disconnectAll()
StopCall ==
  /\ sPc = "idle"
  /\ sPc' = "lock"
  /\ UNCHANGED <<Devices, mu, gPc, gIdx, gLocals, gAcc, gRet, storeVars,
                 connHist, visits, base, sRet, rangeLeft, snapshot, closeErr>>

\* the keys of n.connections
Keys == {a \in Addrs : connections[a] # NoSession}

\* faulty variant: the range begins without waiting for the lock
DisconnectLockNoWait ==
  /\ sPc = "lock"
  /\ mu' = "stop"
  /\ sPc' = "range"
  /\ rangeLeft' = Keys
  /\ snapshot' = {connections[a] : a \in Keys}
  /\ closeErr' = FALSE
  /\ UNCHANGED <<Devices, gPc, gIdx, gLocals, gAcc, gRet, storeVars,
                 connHist, visits, base, sRet>>

\* disconnectAll: n.mu.Lock(); the range over n.connections begins
DisconnectLock ==
  /\ sPc = "lock"
  /\ mu = "free"
  /\ mu' = "stop"
  /\ sPc' = "range"
  /\ rangeLeft' = Keys
  /\ snapshot' = {connections[a] : a \in Keys}
  /\ closeErr' = FALSE
  /\ UNCHANGED <<Devices, gPc, gIdx, gLocals, gAcc, gRet, storeVars,
                 connHist, visits, base, sRet>>

\* faulty variant: the entry is deleted, the session is not closed
DisconnectCloseNoClose ==
  /\ sPc = "range"
  /\ \E a \in rangeLeft :
       /\ connections' = [connections EXCEPT ![a] = NoSession]
       /\ evicted' = evicted \cup {a}
       /\ rangeLeft' = rangeLeft \ {a}
  /\ UNCHANGED <<Devices, mu, gPc, gIdx, gLocals, gAcc, gRet, sessAddr, closed,
                 connHist, visits, base, sPc, sRet, snapshot, closeErr>>

\* faulty variant: the session is closed, the entry is not deleted
DisconnectCloseNoDelete ==
  /\ sPc = "range"
  /\ \E a \in rangeLeft :
       /\ closed' = closed \cup {connections[a]}
       /\ evicted' = evicted \cup {a}
       /\ rangeLeft' = rangeLeft \ {a}
  /\ \E e \in BOOLEAN : closeErr' = (closeErr \/ e)
  /\ UNCHANGED <<Devices, mu, gPc, gIdx, gLocals, gAcc, gRet, sessAddr, connections,
                 connHist, visits, base, sPc, sRet, snapshot>>

(* disconnectAll: one iteration of the range over the map, in the map's     *)
(* arbitrary order: session.Close() (its error is dropped), then            *)
(* delete(n.connections, addr).                                             *)
DisconnectClose ==
  /\ sPc = "range"
  /\ \E a \in rangeLeft :
       /\ closed' = closed \cup {connections[a]}
       /\ connections' = [connections EXCEPT ![a] = NoSession]
       /\ evicted' = evicted \cup {a}
       /\ rangeLeft' = rangeLeft \ {a}
  /\ \E e \in BOOLEAN : closeErr' = (closeErr \/ e)
  /\ UNCHANGED <<Devices, mu, gPc, gIdx, gLocals, gAcc, gRet, sessAddr,
                 connHist, visits, base, sPc, sRet, snapshot>>

\* faulty variant: a failed Close ends the loop and is returned
DisconnectReturnOnCloseError ==
  /\ sPc = "range"
  /\ rangeLeft = {} \/ closeErr
  /\ sRet' = IF closeErr THEN "error" ELSE "nil"
  /\ sPc' = "unlock"
  /\ rangeLeft' = {}
  /\ UNCHANGED <<Devices, mu, gPc, gIdx, gLocals, gAcc, gRet, storeVars,
                 connHist, visits, base, snapshot, closeErr>>

\* disconnectAll: the range is over; return nil
DisconnectReturn ==
  /\ sPc = "range"
  /\ rangeLeft = {}
  /\ sRet' = "nil"
  /\ sPc' = "unlock"
  /\ UNCHANGED <<Devices, mu, gPc, gIdx, gLocals, gAcc, gRet, storeVars,
                 connHist, visits, base, rangeLeft, snapshot, closeErr>>

\* disconnectAll: the deferred n.mu.Unlock(); Stop drops the result and returns
DisconnectUnlock ==
  /\ sPc = "unlock"
  /\ mu' = "free"
  /\ sPc' = "idle"
  /\ sRet' = "none" /\ snapshot' = {} /\ closeErr' = FALSE
  /\ UNCHANGED <<Devices, gPc, gIdx, gLocals, gAcc, gRet, storeVars,
                 connHist, visits, base, rangeLeft>>

\* ---------------------------------------------------------- specifications
connect == ConnectLock \/ ConnectLookup \/ ConnectDial \/ ConnectStore \/ ConnectUnlock

Gather(pool) ==
  \/ GatherCall \/ connect \/ GatherConnected \/ GatherExec(pool)
  \/ GatherDecode \/ GatherEmit \/ GatherReturned

disconnectAll == DisconnectLock \/ DisconnectClose \/ DisconnectReturn \/ DisconnectUnlock

Stop == StopCall \/ disconnectAll

(* Polling: passes of Gather and calls of Stop, interleaved in every way.    *)
Next ==
  \/ GatherCall /\ UNCHANGED obs
  \/ ConnectLock /\ UNCHANGED obs
  \/ ConnectLookup /\ UNCHANGED obs
  \/ ConnectDial /\ UNCHANGED obs
  \/ ConnectStore /\ UNCHANGED obs
  \/ ConnectUnlock /\ UNCHANGED obs
  \/ GatherConnected /\ UNCHANGED obs
  \/ GatherExec(PollReplies) /\ UNCHANGED obs
  \/ GatherDecode /\ UNCHANGED obs
  \/ GatherEmit /\ UNCHANGED obs
  \/ GatherReturned /\ UNCHANGED obs
  \/ StopCall /\ UNCHANGED obs
  \/ DisconnectLock /\ UNCHANGED obs
  \/ DisconnectClose /\ UNCHANGED obs
  \/ DisconnectReturn /\ UNCHANGED obs
  \/ DisconnectUnlock /\ UNCHANGED obs

Spec == Init /\ [][Next]_vars

(* The decoder on every payload: one configured device, no Stop.            *)
InitDecode == Init /\ Len(Devices) = 1

NextDecode ==
  \/ GatherCall /\ UNCHANGED obs
  \/ ConnectLock /\ UNCHANGED obs
  \/ ConnectLookup /\ UNCHANGED obs
  \/ ConnectDial /\ UNCHANGED obs
  \/ ConnectStore /\ UNCHANGED obs
  \/ ConnectUnlock /\ UNCHANGED obs
  \/ GatherConnected /\ UNCHANGED obs
  \/ GatherExec(Replies) /\ UNCHANGED obs
  \/ GatherDecode /\ UNCHANGED obs
  \/ GatherEmit /\ UNCHANGED obs
  \/ GatherReturned /\ UNCHANGED obs

SpecDecode == InitDecode /\ [][NextDecode]_vars

(* Repeated passes with no Stop between them: devices answer with a          *)
(* well-formed payload of one interface (either name, the in-octets counter  *)
(* stated or not), or a dial or an RPC fails.  The host keeps what each      *)
(* pass reported: its tag sets, and the interface names the devices gave.   *)
RepeatEntries ==
  { [name |-> NameElem("ge-0/0/0"), inOctets |-> Elem(<<"4", "2">>),
     outOctets |-> Elem(<<"9">>)],
    [name |-> NameElem("ge-0/0/0"), inOctets |-> NoElem, outOctets |-> Elem(<<"9">>)],
    [name |-> NameElem("ge-0/0/1"), inOctets |-> Elem(<<"4", "2">>),
     outOctets |-> Elem(<<"9">>)] }
RepeatReplies == [wellFormed : {TRUE}, ifaces : {<<e>> : e \in RepeatEntries}]

\* the interface names device k's reply gave, in document order
NamesOf(k) ==
  [j \in 1..Len(visits[k].reply.ifaces) |-> visits[k].reply.ifaces[j].name.text]

PassHealthy ==
  /\ gRet = "nil" /\ errors = <<>>
  /\ Len(visits) = Len(Devices)
  /\ \A k \in 1..Len(visits) : visits[k].out = "ok"

PassSummary ==
  IF PassHealthy
  THEN [ok |-> TRUE,
        names |-> [k \in 1..Len(visits) |-> NamesOf(k)],
        tags |-> [j \in 1..Len(metrics) |-> metrics[j].tags]]
  ELSE NoPass

NextRepeat ==
  \/ GatherCall /\ passDials' = 0 /\ UNCHANGED <<prev, overlap, failed, caller2>>
  \/ ConnectLock /\ UNCHANGED obs
  \/ ConnectLookup /\ UNCHANGED obs
  \/ ConnectDial /\ passDials' = passDials + 1 /\ UNCHANGED <<prev, overlap, failed, caller2>>
  \/ ConnectStore /\ UNCHANGED obs
  \/ ConnectUnlock /\ UNCHANGED obs
  \/ GatherConnected /\ UNCHANGED obs
  \/ GatherExec(RepeatReplies) /\ UNCHANGED obs
  \/ GatherDecode /\ UNCHANGED obs
  \/ GatherEmit /\ UNCHANGED obs
  \/ GatherReturned /\ prev' = PassSummary /\ UNCHANGED <<passDials, overlap, failed, caller2>>

SpecRepeat == Init /\ [][NextRepeat]_vars

(* Passes and Stop calls in which the addresses whose connect failed are     *)
(* remembered: connect returns an error exactly when DialSSH failed, Gather  *)
(* starts a new pass with every call.                                        *)
RetryReplies == [wellFormed : {TRUE}, ifaces : {<<PollEntry>>}]

ConnectFailed ==
  [failed EXCEPT !.cur = IF cErr THEN @ \cup {device} ELSE @,
                 !.recent = IF cErr THEN @ \cup {device} ELSE @ \ {device}]

NextRetry ==
  \/ GatherCall /\ failed' = [failed EXCEPT !.last = failed.cur, !.cur = {}]
       /\ UNCHANGED <<prev, passDials, overlap, caller2>>
  \/ ConnectLock /\ UNCHANGED obs
  \/ ConnectLookup /\ UNCHANGED obs
  \/ ConnectDial /\ UNCHANGED obs
  \/ ConnectStore /\ UNCHANGED obs
  \/ ConnectUnlock /\ failed' = ConnectFailed /\ UNCHANGED <<prev, passDials, overlap, caller2>>
  \/ GatherConnected /\ UNCHANGED obs
  \/ GatherExec(RetryReplies) /\ UNCHANGED obs
  \/ GatherDecode /\ UNCHANGED obs
  \/ GatherEmit /\ UNCHANGED obs
  \/ GatherReturned /\ UNCHANGED obs
  \/ StopCall /\ UNCHANGED obs
  \/ DisconnectLock /\ UNCHANGED obs
  \/ DisconnectClose /\ UNCHANGED obs
  \/ DisconnectReturn /\ UNCHANGED obs
  \/ DisconnectUnlock /\ UNCHANGED obs

SpecRetry == Init /\ [][NextRetry]_vars

(* Passes and Stop calls in which it is remembered whether Stop was called   *)
(* while the current pass was running (between Gather's call and return).    *)
GatherRunning == gPc \notin {"idle", "returned"}

NextShutdown ==
  \/ GatherCall /\ overlap' = FALSE /\ UNCHANGED <<prev, passDials, failed, caller2>>
  \/ ConnectLock /\ UNCHANGED obs
  \/ ConnectLookup /\ UNCHANGED obs
  \/ ConnectDial /\ UNCHANGED obs
  \/ ConnectStore /\ UNCHANGED obs
  \/ ConnectUnlock /\ UNCHANGED obs
  \/ GatherConnected /\ UNCHANGED obs
  \/ GatherExec(RetryReplies) /\ UNCHANGED obs
  \/ GatherDecode /\ UNCHANGED obs
  \/ GatherEmit /\ UNCHANGED obs
  \/ GatherReturned /\ UNCHANGED obs
  \/ StopCall /\ overlap' = (overlap \/ GatherRunning)
       /\ UNCHANGED <<prev, passDials, failed, caller2>>
  \/ DisconnectLock /\ UNCHANGED obs
  \/ DisconnectClose /\ UNCHANGED obs
  \/ DisconnectReturn /\ UNCHANGED obs
  \/ DisconnectUnlock /\ UNCHANGED obs

SpecShutdown == Init /\ [][NextShutdown]_vars

(* A second call of connect, made while Gather and Stop run: the same        *)
(* method on the same Netconf, so the same n.mu and the same n.connections.  *)
gatherVars == <<Devices, gPc, gIdx, gLocals, gAcc, gRet, connHist, visits, base>>
history == <<prev, passDials, overlap, failed>>

\* connect(device) is called
Connect2Call(a) ==
  /\ c2Pc = "idle"
  /\ c2Pc' = "lock" /\ c2Dev' = a
  /\ UNCHANGED <<c2Session, c2Err>>
  /\ UNCHANGED <<gatherVars, mu, storeVars, stopVars, history>>

\* connect: n.mu.Lock()
Connect2Lock ==
  /\ c2Pc = "lock"
  /\ mu = "free"
  /\ mu' = "connect2"
  /\ c2Pc' = "lookup"
  /\ UNCHANGED <<c2Dev, c2Session, c2Err>>
  /\ UNCHANGED <<gatherVars, storeVars, stopVars, history>>

\* connect: if session, ok := n.connections[device.Address]; ok { return session, nil }
Connect2Lookup ==
  /\ c2Pc = "lookup"
  /\ IF connections[c2Dev] # NoSession
     THEN /\ c2Session' = connections[c2Dev] /\ c2Err' = FALSE
          /\ c2Pc' = "unlock"
     ELSE /\ c2Pc' = "dial"
          /\ UNCHANGED <<c2Session, c2Err>>
  /\ UNCHANGED c2Dev
  /\ UNCHANGED <<gatherVars, mu, storeVars, stopVars, history>>

\* connect: netconf.DialSSH fails, or yields a new session
Connect2Dial ==
  /\ c2Pc = "dial"
  /\ \/ /\ c2Session' = NoSession /\ c2Err' = TRUE
        /\ c2Pc' = "unlock"
        /\ UNCHANGED sessAddr
     \/ /\ Len(sessAddr) < MaxSessions
        /\ sessAddr' = Append(sessAddr, c2Dev)
        /\ c2Session' = Len(sessAddr) + 1 /\ c2Err' = FALSE
        /\ c2Pc' = "store"
  /\ UNCHANGED c2Dev
  /\ UNCHANGED <<gatherVars, mu, connections, closed, evicted, stopVars, history>>

\* connect: n.connections[device.Address] = session; return session, nil
Connect2Store ==
  /\ c2Pc = "store"
  /\ connections' = [connections EXCEPT ![c2Dev] = c2Session]
  /\ evicted' = evicted \ {c2Dev}
  /\ c2Pc' = "unlock"
  /\ UNCHANGED <<c2Dev, c2Session, c2Err>>
  /\ UNCHANGED <<gatherVars, mu, sessAddr, closed, stopVars, history>>

\* connect: the deferred n.mu.Unlock(), and the return to the caller
Connect2Unlock ==
  /\ c2Pc = "unlock"
  /\ mu' = "free"
  /\ c2Pc' = "idle" /\ c2Dev' = NoAddr /\ c2Session' = NoSession /\ c2Err' = FALSE
  /\ UNCHANGED <<gatherVars, storeVars, stopVars, history>>

NextLock ==
  \/ GatherCall /\ UNCHANGED obs
  \/ ConnectLock /\ UNCHANGED obs
  \/ ConnectLookup /\ UNCHANGED obs
  \/ ConnectDial /\ UNCHANGED obs
  \/ ConnectStore /\ UNCHANGED obs
  \/ ConnectUnlock /\ UNCHANGED obs
  \/ GatherConnected /\ UNCHANGED obs
  \/ GatherExec(RetryReplies) /\ UNCHANGED obs
  \/ GatherDecode /\ UNCHANGED obs
  \/ GatherEmit /\ UNCHANGED obs
  \/ GatherReturned /\ UNCHANGED obs
  \/ StopCall /\ UNCHANGED obs
  \/ DisconnectLock /\ UNCHANGED obs
  \/ DisconnectClose /\ UNCHANGED obs
  \/ DisconnectReturn /\ UNCHANGED obs
  \/ DisconnectUnlock /\ UNCHANGED obs
  \/ \E a \in Addrs : Connect2Call(a)
  \/ Connect2Lock
  \/ Connect2Lookup
  \/ Connect2Dial
  \/ Connect2Store
  \/ Connect2Unlock

\* NewNetconf with a Devices list shorter than the longest
InitLock == Init /\ Len(Devices) < MaxDevices
SpecLock == InitLock /\ [][NextLock]_vars

\* ============================================================== properties
(* What a payload says, read off the payload itself: the value a counter    *)
(* element states, and the measurements a device's reply calls for.         *)
TextValue == (<<>> :> 0) @@ (<<"9">> :> 9) @@ (<<"4", "2">> :> 42)
ValidCounter(e) == ~e.present \/ e.text \in DOMAIN TextValue
CounterOf(e) ==
  IF ~e.present THEN 0
  ELSE IF e.text \in DOMAIN TextValue THEN TextValue[e.text] ELSE -1

ExpectedStat(entry, addr) ==
  [measurement |-> "netconf_interface",
   tags |-> [interface |-> entry.name.text, device |-> addr],
   fields |-> [input_bytes |-> CounterOf(entry.inOctets),
               output_bytes |-> CounterOf(entry.outOctets)]]

ExpectedStats(r, addr) ==
  [j \in 1..Len(r.ifaces) |-> ExpectedStat(r.ifaces[j], addr)]

Slice(q, from, to) == [j \in 1..(to - from) |-> q[from + j]]

\* the expected measurements of the visited devices i.., leaving out device skip
RECURSIVE ExpectedFrom(_, _)
ExpectedFrom(i, skip) ==
  IF i > Len(visits) THEN <<>>
  ELSE (IF i = skip THEN <<>> ELSE ExpectedStats(visits[i].reply, Devices[i]))
       \o ExpectedFrom(i + 1, skip)

\* device k is the only one of the pass that failed, and it failed in way out
OnlyFailure(k, out) ==
  /\ k \in 1..Len(visits)
  /\ visits[k].out = out
  /\ \A i \in 1..Len(visits) : i # k => visits[i].out = "ok"

(* C1: when Gather returns and the connect of exactly one device failed      *)
(* while every other device connected, answered and decoded, then every      *)
(* device of the list was visited, the pass holds the measurements of every  *)
(* other device (before and after the failing one), and exactly one error,   *)
(* tagged with the failing device's address.                                 *)
C1_ConnectFailureIsolated ==
  gPc = "returned" =>
    \A k \in 1..Len(Devices) :
      OnlyFailure(k, "connect") =>
        /\ Len(visits) = Len(Devices)
        /\ metrics = ExpectedFrom(1, k)
        /\ errors = <<[kind |-> "connect", device |-> Devices[k]]>>

C1_Witness ==
  /\ gPc = "returned"
  /\ Len(Devices) = 3 /\ Len(visits) = 3
  /\ OnlyFailure(2, "connect")
  /\ Len(metrics) = 2
  /\ metrics[1].tags.device = Devices[1] /\ metrics[2].tags.device = Devices[3]
  /\ Len(errors) = 1

(* C2: when Gather returns and the RPC of exactly one device failed while    *)
(* every other device it reached was healthy, then every device of the list  *)
(* was visited, the pass holds the measurements of every other device, and   *)
(* one error was reported for the failing device.                            *)
C2_RpcFailureIsolated ==
  gPc = "returned" =>
    \A k \in 1..Len(Devices) :
      OnlyFailure(k, "rpc") =>
        /\ Len(visits) = Len(Devices)
        /\ metrics = ExpectedFrom(1, k)
        /\ Len(errors) + (IF gRet = "rpc" THEN 1 ELSE 0) = 1

(* C3: a device whose reply was not well-formed XML gets no measurement and  *)
(* exactly one error, tagged with its address, and the pass goes on with     *)
(* the next device of the list.                                              *)
C3_MalformedReplyIsolated ==
  \A k \in 1..Len(visits) :
    (visits[k].out \in {"ok", "xml"} /\ ~visits[k].reply.wellFormed) =>
      /\ visits[k].to = visits[k].from
      /\ visits[k].eto = visits[k].efrom + 1
      /\ errors[visits[k].eto] = [kind |-> "xml", device |-> Devices[k]]
      /\ (k < Len(Devices) /\ Len(visits) = k) =>
           (gIdx = k + 1 /\ gPc \notin {"returned", "idle"})

C3_Witness ==
  /\ gPc = "returned" /\ gRet = "nil"
  /\ Len(visits) = 3
  /\ visits[2].out = "xml" /\ ~visits[2].reply.wellFormed
  /\ visits[2].reply.ifaces # <<>>
  /\ visits[3].out = "ok" /\ visits[3].to > visits[3].from

\* the sessions dialed to address a and not closed
Live(a) == {x \in 1..Len(sessAddr) : sessAddr[x] = a /\ x \notin closed}

\* connect is at its return statement, the lock still held
C4_AtReturn ==
  IF cBefore # NoSession
  THEN cDials = 0 /\ ~cErr /\ cSession = cBefore /\ connections[device] = cBefore
  ELSE /\ cDials = 1
       /\ ~cErr => /\ connections[device] = cSession
                   /\ cSession # NoSession
                   /\ sessAddr[cSession] = device

(* C4: a connect for an address with no cached session dials exactly once    *)
(* and, on success, caches the session it dialed; a connect for an address   *)
(* with a cached session returns that session without dialing; and a cached  *)
(* session leaves the store only in disconnectAll's loop.                    *)
C4_DialOnceThenReuse ==
  [][ /\ gPc' = "unlock" => C4_AtReturn'
      /\ \A a \in Addrs :
           (connections[a] # NoSession /\ connections'[a] # connections[a]) =>
             (sPc = "range" /\ mu = "stop") ]_vars

\* the first connect of a later pass returns the session an earlier pass cached
C4_Witness ==
  /\ gPc = "unlock"
  /\ visits = <<>> /\ gIdx = 1
  /\ cBefore # NoSession /\ cSession = cBefore /\ cDials = 0
  /\ closed = {}

(* C5: in every state there is at most one session per address that was      *)
(* dialed and not closed.                                                    *)
C5_OneLiveSessionPerAddress ==
  \A a \in Addrs : Cardinality(Live(a)) <= 1

\* the second of two entries sharing an address, after a Stop closed a session
C5_Witness ==
  /\ Len(Devices) >= 2 /\ Devices[1] = Devices[2]
  /\ gPc = "connected" /\ gIdx = 2 /\ ~cErr
  /\ Cardinality(Live(Devices[1])) = 1
  /\ \E x \in closed : sessAddr[x] = Devices[1]

(* C6: when disconnectAll is at its return (the lock still held), every      *)
(* session that was in the store when it took the lock has been closed, the  *)
(* store is empty, and the value returned is nil.                            *)
C6_DisconnectAllClosesAndClears ==
  sPc = "unlock" =>
    /\ snapshot \subseteq closed
    /\ \A a \in Addrs : connections[a] = NoSession
    /\ sRet = "nil"

\* two sessions closed, one of the Close calls returned an error
C6_Witness ==
  /\ sPc = "unlock"
  /\ Cardinality(snapshot) = 2
  /\ closeErr
  /\ sRet = "nil"

(* C7: a connect for an address whose entry disconnectAll deleted dials       *)
(* again, and no connect returns a session that was closed.                  *)
C7_FreshDialAfterCloseAll ==
  [][ /\ (gPc = "lookup" /\ gPc' # "lookup" /\ device \in evicted) => gPc' = "dial"
      /\ (gPc' = "unlock" /\ ~cErr') => cSession' \notin closed' ]_vars

\* Stop has returned; the address it closed has been dialed again
C7_Witness ==
  /\ gPc = "store"
  /\ device \in evicted
  /\ sPc = "idle"
  /\ \E x \in closed : sessAddr[x] = device
  /\ cSession \notin closed

(* C8: when an RPC fails on a session, the step that handles the failure     *)
(* removes that session from the store.                                      *)
C8_RpcFailureEvicts ==
  [][ (gPc = "exec" /\ gRet' = "rpc") => connections'[Devices[gIdx]] # session ]_vars

(* C9: a device whose connect, RPC and decode succeeded has, in the pass's   *)
(* accumulator, exactly one netconf_interface measurement per interface      *)
(* entry of its reply, in document order, each with the entry's name and     *)
(* the device's address as tags and the entry's counters as fields, and no   *)
(* error; a reply without entries adds nothing.                              *)
C9_MeasurementsMatchReply ==
  \A k \in 1..Len(visits) :
    visits[k].out = "ok" =>
      /\ Slice(metrics, visits[k].from, visits[k].to)
           = ExpectedStats(visits[k].reply, Devices[k])
      /\ visits[k].eto = visits[k].efrom

C9_Witness ==
  /\ gPc = "returned"
  /\ Len(visits) = 1 /\ visits[1].out = "ok"
  /\ Len(visits[1].reply.ifaces) = 2
  /\ visits[1].reply.ifaces[1].name # visits[1].reply.ifaces[2].name
  /\ visits[1].reply.ifaces[1].inOctets.text = <<"4", "2">>
  /\ Len(metrics) = 2
  /\ errors = <<>>

\* the reply of visit k is well-formed and every counter it states is a number
C10_OnlyMissingCounters(k) ==
  /\ visits[k].out \in {"ok", "xml"}
  /\ visits[k].reply.wellFormed
  /\ \A j \in 1..Len(visits[k].reply.ifaces) :
       /\ ValidCounter(visits[k].reply.ifaces[j].inOctets)
       /\ ValidCounter(visits[k].reply.ifaces[j].outOctets)

(* C10: an interface entry without in-octets (or without out-octets) does     *)
(* not make the decode fail: its measurement is emitted with that counter 0  *)
(* and the name and the other counter taken from the entry.                  *)
C10_MissingCounterIsZero ==
  \A k \in 1..Len(visits) :
    C10_OnlyMissingCounters(k) =>
      /\ visits[k].out = "ok"
      /\ visits[k].eto = visits[k].efrom
      /\ visits[k].to - visits[k].from = Len(visits[k].reply.ifaces)
      /\ \A j \in 1..Len(visits[k].reply.ifaces) :
           LET e == visits[k].reply.ifaces[j]
               m == metrics[visits[k].from + j]
           IN /\ m.tags.interface = e.name.text
              /\ ~e.inOctets.present =>
                   (m.fields.input_bytes = 0
                    /\ m.fields.output_bytes = CounterOf(e.outOctets))
              /\ ~e.outOctets.present =>
                   (m.fields.output_bytes = 0
                    /\ m.fields.input_bytes = CounterOf(e.inOctets))

C10_Witness ==
  /\ gPc = "returned"
  /\ Len(visits) = 1 /\ visits[1].out = "ok"
  /\ Len(visits[1].reply.ifaces) = 1
  /\ ~visits[1].reply.ifaces[1].inOctets.present
  /\ visits[1].reply.ifaces[1].outOctets.text = <<"9">>
  /\ Len(metrics) = 1
  /\ metrics[1].fields = [input_bytes |-> 0, output_bytes |-> 9]

(* C11: when a pass returns healthy right after a healthy pass over the      *)
(* same list, and every device gave the same interface names as in that      *)
(* pass, then the pass emitted the same sequence of tag sets, whatever the   *)
(* counters were, and it made no dial.                                       *)
C11_RepeatedPassSameTags ==
  (gPc = "returned" /\ prev.ok /\ PassHealthy
     /\ prev.names = [k \in 1..Len(visits) |-> NamesOf(k)]) =>
    /\ [j \in 1..Len(metrics) |-> metrics[j].tags] = prev.tags
    /\ passDials = 0

\* a second healthy pass over two devices, one counter differing from the first pass
C11_Witness ==
  /\ gPc = "returned" /\ prev.ok /\ PassHealthy
  /\ Len(Devices) = 2 /\ Devices[1] # Devices[2]
  /\ prev.names = [k \in 1..Len(visits) |-> NamesOf(k)]
  /\ prev.names[1] # prev.names[2]
  /\ metrics[1].fields.input_bytes = 0
  /\ metrics[2].fields.input_bytes = 42
  /\ passDials = 0

(* C12: Gather never calls session.Exec on a session that disconnectAll has  *)
(* closed: the session connect returned is still open when the RPC on it     *)
(* is executed.                                                              *)
C12_NoRpcOnClosedSession ==
  [][ (gPc = "exec" /\ gPc' # "exec") => session \notin closed ]_vars

\* Gather is between the connect of a device and the end of its iteration
C13_Working ==
  gPc \in {"lock", "lookup", "dial", "store", "unlock", "connected", "exec",
           "decode", "emit"}

(* C13: within a pass the devices are handled one after the other in list    *)
(* order: the loop variable only moves from a device to the next one, and    *)
(* only from the end of that device's iteration; every metric and every      *)
(* error is appended for the device the loop is at; when the connect of a    *)
(* device begins, all devices before it are finished and nothing of it has   *)
(* been recorded; and no connect runs while a session is in use.             *)
C13_DevicesInListOrder ==
  [][ /\ (gIdx' # gIdx /\ gIdx # 0 /\ gIdx' # 0) =>
           /\ gIdx' = gIdx + 1
           /\ gPc \in {"connected", "decode", "emit"} /\ gPc' = "lock"
      /\ (gIdx = 0 /\ gIdx' # 0) => (gIdx' = 1 /\ gPc = "idle" /\ gPc' = "lock")
      /\ (metrics' # metrics /\ gPc # "returned") =>
           /\ gPc = "emit" /\ gIdx' = gIdx /\ Len(visits) = gIdx - 1
           /\ Len(metrics') = Len(metrics) + 1
           /\ SubSeq(metrics', 1, Len(metrics)) = metrics
           /\ metrics'[Len(metrics')].tags.device = Devices[gIdx]
      /\ (errors' # errors /\ gPc # "returned") =>
           /\ gPc \in {"connected", "decode"} /\ Len(visits) = gIdx - 1
           /\ Len(errors') = Len(errors) + 1
           /\ SubSeq(errors', 1, Len(errors)) = errors
           /\ errors'[Len(errors')].device = Devices[gIdx]
      /\ gPc' = "lock" =>
           /\ Len(visits') = gIdx' - 1
           /\ \A k \in 1..Len(visits') : visits'[k].addr = Devices'[k]
           /\ Len(metrics') = base'.m /\ Len(errors') = base'.e
      /\ C13_Working' =>
           /\ gIdx' \in 1..Len(Devices')
           /\ (mu' = "gather" \/ gPc' \in {"lock", "connected"}) => session' = NoSession
    ]_vars

\* the connect of the third device begins; the first two are done and reported
C13_Witness ==
  /\ gPc = "lock" /\ gIdx = 3
  /\ Len(visits) = 2 /\ visits[1].out = "ok" /\ visits[2].out = "xml"
  /\ Len(metrics) = 1 /\ Len(errors) = 1

\* the connect in progress is the first one of this pass for its address
C15_FirstOfPass == \A k \in 1..(gIdx - 1) : Devices[k] # device

\* what a failing connect does to the store, and that it dials once
C15_FailedDialStep ==
  /\ (gPc \in {"lookup", "dial"} \/ (gPc = "unlock" /\ cErr)) =>
       connections' = connections
  /\ (gPc = "dial" /\ cDials' # cDials /\ cErr') =>
       /\ gPc' = "unlock" /\ cDials' = 1
       /\ cSession' = NoSession /\ sessAddr' = sessAddr
  /\ (gPc = "unlock" /\ cErr) =>
       /\ cDials = 1 /\ cBefore = NoSession
       /\ connections[device] = NoSession
       /\ gPc' \in {"unlock", "connected"}

C16_LiveSessions == (1..Len(sessAddr)) \ closed

(* C16: whenever the store lock is free, the store and the live sessions     *)
(* coincide: every entry holds a session dialed to the entry's address and   *)
(* not closed, and every session dialed and not closed is the entry of the   *)
(* address it was dialed to.                                                 *)
C16_StoreIsLiveSessions ==
  mu = "free" =>
    /\ \A a \in Addrs : connections[a] # NoSession =>
         /\ connections[a] \in C16_LiveSessions
         /\ sessAddr[connections[a]] = a
    /\ \A s \in C16_LiveSessions : connections[sessAddr[s]] = s

\* both calls running, lock free: one session closed, two live and stored
C16_Witness ==
  /\ mu = "free" /\ gPc = "exec" /\ sPc = "lock"
  /\ closed = {1}
  /\ C16_LiveSessions = {2, 3}
  /\ \A a \in Addrs : connections[a] \in {2, 3}

\* who is between n.mu.Lock() and n.mu.Unlock()
C14_GatherInside == gPc \in {"lookup", "dial", "store", "unlock"}
C14_Connect2Inside == c2Pc \in {"lookup", "dial", "store", "unlock"}
C14_StopInside == sPc \in {"range", "unlock"}

(* C14: one lock guards the store for all addresses. At most one of the two  *)
(* connect calls and disconnectAll is between Lock and Unlock, and mu names  *)
(* it; while a connect is there (its lookup, its dial, its store), the other *)
(* connect, whatever its address, and disconnectAll stay before their Lock,  *)
(* and the store changes only by that connect's own store.                   *)
C14_OneLockForAllAddresses ==
  [][ /\ (C14_GatherInside <=> mu = "gather")
      /\ (C14_Connect2Inside <=> mu = "connect2")
      /\ (C14_StopInside <=> mu = "stop")
      /\ C14_GatherInside =>
           /\ c2Pc \in {"idle", "lock"} /\ c2Pc' \in {"idle", "lock"}
           /\ sPc \in {"idle", "lock"} /\ sPc' \in {"idle", "lock"}
           /\ UNCHANGED <<c2Session, c2Err, rangeLeft, snapshot>>
           /\ connections' # connections =>
                /\ gPc = "store"
                /\ connections' = [connections EXCEPT ![device] = cSession]
      /\ C14_Connect2Inside =>
           /\ gPc \notin {"lookup", "dial", "store", "unlock"}
           /\ gPc' \notin {"lookup", "dial", "store", "unlock"}
           /\ sPc \in {"idle", "lock"} /\ sPc' \in {"idle", "lock"}
           /\ UNCHANGED <<rangeLeft, snapshot>>
           /\ connections' # connections =>
                /\ c2Pc = "store"
                /\ connections' = [connections EXCEPT ![c2Dev] = c2Session]
    ]_vars

(* Gather's connect is dialing one address; a connect for another address,   *)
(* whose session is in the store, and disconnectAll both wait at their Lock. *)
C14_Witness ==
  /\ gPc = "dial" /\ mu = "gather"
  /\ c2Pc = "lock" /\ c2Dev # device /\ connections[c2Dev] # NoSession
  /\ sPc = "lock"

(* C17: when Stop was called while a pass was running and no pass has been   *)
(* called since, then once Gather and Stop have both returned the store is   *)
(* empty and no session is open.                                             *)
C17_StopDuringPassReleasesAll ==
  (overlap /\ gPc \in {"returned", "idle"} /\ sPc = "idle") =>
    /\ \A a \in Addrs : connections[a] = NoSession
    /\ (1..Len(sessAddr)) \ closed = {}
====
